---- MODULE Spec2Model ----
(***************************************************************************)
(* fs-directory-cleaner: deleteDirectoriesIfOlderThan and deleteRecursively *)
(* running on RealFilesystemExecutor (std::filesystem).                    *)
(*                                                                         *)
(* The file system is a fixed universe of nine entries:                    *)
(*                                                                         *)
(*     1 root ---- 2 ---- 4 ---- 6          8 (directory outside root)     *)
(*            \      \--- 5                  \--- 9                        *)
(*             \-- 3 ---- 7                                                *)
(*                                                                         *)
(* Each entry is absent, a regular file, a directory or a symbolic link.   *)
(* A path is [via, node]: the entry it names (symlink not followed) and    *)
(* the symlink its name passes through (0 when it passes through none).    *)
(*                                                                         *)
(* Input space of the model:                                               *)
(*  - symlinks occur at entries 3 and 4; a symlink dangles or points to a  *)
(*    file or to a directory whose subtree holds no symlink (no cycles);   *)
(*  - a directory is listed in ascending order of entry number;            *)
(*  - the environment has at most one access restriction: an entry whose   *)
(*    stat() is denied, a directory that may not be opened, or an entry    *)
(*    whose removal fails; it is the same for both invocations;            *)
(*  - a successful removal sets the parent's last-modified time to the     *)
(*    current time, MaxTime, which is not older than any threshold.        *)
(*                                                                         *)
(* An exception nothing catches (filesystem_error out of is_directory or   *)
(* last_write_time) ends the invocation in pc = "terminated".              *)
(***************************************************************************)
EXTENDS Integers, Sequences, FiniteSets, TLC

\* Latest timestamp of the model; also the clock value of a removal.
MaxTime == 2

Nodes == 1..9
Root == 1
Times == 0..MaxTime
Parent == <<0, 1, 1, 2, 2, 4, 3, 0, 8>>
\* Entries that lie outside the tree rooted at Root.
Outside == {8, 9}
NoFault == [type |-> "none", node |-> 0]

VARIABLES
    kind,           \* node -> "none" | "file" | "dir" | "link"   (current storage)
    mtime,          \* node -> last-modified time
    target,         \* node -> node a symlink points to (0: dangling / not a link)
    fault,          \* the one access restriction of the environment
    oldestAllowed,  \* threshold of the invocation
    runMode,        \* "DryRun" | "Execute"
    phase,          \* "none" | "first" | "second" invocation
    pc,             \* "idle" | "loop" | "recursing" | "returned" | "terminated"
    cause,          \* the call whose exception terminated the run
    entries,        \* top-level entries the loop of line 93 has not reached yet
    todo,           \* paths deleteRecursively still has to be called on, depth-first
    dryLog,         \* paths printed as "Removing (dry-run)"
    removeLog,      \* calls of removeFile: [path, existed, failed]
    skipLog,        \* paths printed as "Skipping"
    errLog,         \* paths whose removal printed "Error"
    listLog,        \* paths deleteRecursively called listDirectories on
    kindStart,      \* storage when the current invocation started
    mtimeStart,
    first           \* what the first invocation did (set when the second starts)

vars == <<kind, mtime, target, fault, oldestAllowed, runMode, phase, pc, cause,
          entries, todo, dryLog, removeLog, skipLog, errLog, listLog,
          kindStart, mtimeStart, first>>

env == <<target, fault, oldestAllowed>>
logs == <<dryLog, removeLog, skipLog, errLog, listLog>>
snap == <<kindStart, mtimeStart, first>>

----------------------------------------------------------------------------
\* Helpers on the tree

RECURSIVE InSubtree(_, _)
InSubtree(n, c) == IF n = c THEN TRUE
                   ELSE IF n = 0 THEN FALSE
                   ELSE InSubtree(Parent[n], c)

Subtree(c) == {n \in Nodes : InSubtree(n, c)}

RECURSIVE SortedSeq(_)
SortedSeq(S) == IF S = {} THEN <<>>
                ELSE LET m == CHOOSE x \in S : \A y \in S : x <= y
                     IN <<m>> \o SortedSeq(S \ {m})

Path(v, n) == [via |-> v, node |-> n]

\* The entry a path designates once a final symlink is followed (0: none).
ResolveIn(k, p) ==
    LET n == p.node IN
    IF k[n] = "link"
      THEN IF target[n] # 0 /\ k[target[n]] # "none" THEN target[n] ELSE 0
      ELSE IF k[n] = "none" THEN 0 ELSE n

Resolve(p) == ResolveIn(kind, p)

\* stat() fails with EACCES (an error other than "not found").
StatDenied(p) ==
    /\ fault.type = "nostat"
    /\ fault.node \in {p.node, Resolve(p)}

----------------------------------------------------------------------------
\* RealFilesystemExecutor

\* fs::is_directory(path): follows symlinks; "not found" is false, any other
\* error is thrown as filesystem_error.
isDirectory(p) ==
    IF StatDenied(p) THEN "throw"
    ELSE IF Resolve(p) # 0 /\ kind[Resolve(p)] = "dir" THEN "true"
    ELSE "false"

\* fs::directory_iterator(path, skip_permission_denied): follows symlinks, a
\* directory that may not be opened yields no entries.
listDirectories(p) ==
    LET d == Resolve(p)
        v == IF kind[p.node] = "link" THEN p.node ELSE p.via
    IN IF fault.type = "nolist" /\ fault.node = d THEN <<>>
       ELSE [i \in 1..Cardinality({n \in Nodes : Parent[n] = d /\ kind[n] # "none"})
               |-> Path(v, SortedSeq({n \in Nodes : Parent[n] = d /\ kind[n] # "none"})[i])]

\* fs::remove(path, ec): removes the entry the path names (a symlink itself,
\* never its target); a missing entry is no error.
RemoveFails(p) == kind[p.node] # "none" /\ fault.type = "noremove" /\ fault.node = p.node

\* Faulty variant: the call reports success but the entry stays.
removeFileKind_keepsEntry(p) == kind

removeFileKind(p) ==
    IF RemoveFails(p) \/ kind[p.node] = "none" THEN kind
    ELSE [kind EXCEPT ![p.node] = "none"]

removeFileMtime(p) ==
    IF RemoveFails(p) \/ kind[p.node] = "none" \/ Parent[p.node] = 0 THEN mtime
    ELSE [mtime EXCEPT ![Parent[p.node]] = MaxTime]

\* directory_entry::last_write_time(): follows symlinks, throws on any error
\* (-1 stands for the exception).
lastWriteTimeIn(k, m, p) ==
    IF (fault.type = "nostat" /\ fault.node \in {p.node, ResolveIn(k, p)})
       \/ ResolveIn(k, p) = 0
    THEN -1 ELSE m[ResolveIn(k, p)]

lastWriteTime(p) == lastWriteTimeIn(kind, mtime, p)

IsOlder(t) == t < oldestAllowed

----------------------------------------------------------------------------
\* Initial states: the trees, timestamps, thresholds and access restrictions

WellFormed(k, tg) ==
    /\ k[1] = "dir" /\ k[8] = "dir" /\ k[9] = "file"
    /\ k[2] \in {"dir", "file"}
    /\ k[3] \in {"dir", "file", "link"}
    /\ k[4] \in {"none", "dir", "file", "link"}
    /\ \A n \in {5, 6, 7} : k[n] \in {"none", "file"}
    /\ \A n \in Nodes : (k[n] # "none" /\ Parent[n] # 0) => k[Parent[n]] = "dir"
    /\ \A n \in Nodes :
         IF k[n] = "link"
           THEN \/ tg[n] = 0
                \/ /\ tg[n] # 0
                   /\ k[tg[n]] \in {"dir", "file"}
                   /\ \A x \in Subtree(tg[n]) : k[x] # "link"
           ELSE tg[n] = 0

Faults(k) ==
    {NoFault}
    \cup {[type |-> "nostat", node |-> n] : n \in {x \in 2..7 : k[x] # "none"}}
    \cup {[type |-> "nolist", node |-> n] : n \in {x \in 2..7 : k[x] = "dir"}}
    \cup {[type |-> "noremove", node |-> n] : n \in {x \in 2..7 : k[x] \in {"file", "link"}}}

EmptyRun == [mode |-> "none", pc |-> "idle", dryLog |-> <<>>, removeLog |-> <<>>,
             skipLog |-> <<>>, errLog |-> <<>>, kindStart |-> <<>>,
             kindAfter |-> <<>>, mtimeAfter |-> <<>>]

\* Entries 1, 8 and 9 are fixed; symlinks occur at entries 3 and 4; entries 2, 3
\* and 4 carry the timestamps that vary.
KindChoices ==
    {<<"dir", k2, k3, k4, k5, k6, k7, "dir", "file">> :
        k2 \in {"dir", "file"}, k3 \in {"dir", "file", "link"},
        k4 \in {"none", "dir", "file", "link"},
        k5 \in {"none", "file"}, k6 \in {"none", "file"}, k7 \in {"none", "file"}}

TargetChoices == {<<0, 0, t3, t4, 0, 0, 0, 0, 0>> : t3 \in 0..9, t4 \in 0..9}

MtimeChoices ==
    {<<MaxTime, m2, m3, m4, MaxTime, MaxTime, MaxTime, MaxTime, MaxTime>> :
        m2 \in Times, m3 \in Times, m4 \in Times}

Init ==
    /\ kind \in KindChoices
    /\ target \in TargetChoices
    /\ WellFormed(kind, target)
    /\ mtime \in MtimeChoices
    /\ \A n \in {2, 3, 4} : kind[n] \in {"none", "link"} => mtime[n] = MaxTime
    /\ fault \in Faults(kind)
    /\ oldestAllowed \in 1..(MaxTime - 1)
    /\ runMode = "DryRun"
    /\ phase = "none"
    /\ pc = "idle"
    /\ cause = "none"
    /\ entries = <<>>
    /\ todo = <<>>
    /\ dryLog = <<>> /\ removeLog = <<>> /\ skipLog = <<>> /\ errLog = <<>> /\ listLog = <<>>
    /\ kindStart = kind
    /\ mtimeStart = mtime
    /\ first = EmptyRun

----------------------------------------------------------------------------
\* deleteDirectoriesIfOlderThan

\* First invocation, in either mode: line 93 lists the root.
Invoke ==
    /\ pc = "idle"
    /\ phase' = "first"
    /\ runMode' \in {"DryRun", "Execute"}
    /\ entries' = listDirectories(Path(0, Root))
    /\ pc' = "loop"
    /\ UNCHANGED <<kind, mtime, env, cause, todo, logs, snap>>

\* Second invocation, in Execute mode, with the same threshold on the tree
\* the first invocation left.
InvokeAgain ==
    /\ pc \in {"returned", "terminated"}
    /\ phase = "first"
    /\ phase' = "second"
    /\ first' = [mode |-> runMode, pc |-> pc, dryLog |-> dryLog, removeLog |-> removeLog,
                 skipLog |-> skipLog, errLog |-> errLog, kindStart |-> kindStart,
                 kindAfter |-> kind, mtimeAfter |-> mtime]
    /\ runMode' = "Execute"
    /\ kindStart' = kind
    /\ mtimeStart' = mtime
    /\ entries' = listDirectories(Path(0, Root))
    /\ pc' = "loop"
    /\ cause' = "none"
    /\ todo' = <<>>
    /\ dryLog' = <<>> /\ removeLog' = <<>> /\ skipLog' = <<>> /\ errLog' = <<>>
    /\ listLog' = <<>>
    /\ UNCHANGED <<kind, mtime, env>>

\* Line 96: entry.last_write_time() throws; nothing catches it.
LastWriteTimeThrows ==
    /\ pc = "loop" /\ entries # <<>>
    /\ lastWriteTime(Head(entries)) = -1
    /\ pc' = "terminated"
    /\ cause' = "last_write_time"
    /\ UNCHANGED <<kind, mtime, env, runMode, phase, entries, todo, logs, snap>>

\* Lines 97-98: the entry is older than the threshold.
SelectOlder ==
    /\ pc = "loop" /\ entries # <<>>
    /\ lastWriteTime(Head(entries)) # -1
    /\ IsOlder(lastWriteTime(Head(entries)))
    /\ todo' = <<Head(entries)>>
    /\ entries' = Tail(entries)
    /\ pc' = "recursing"
    /\ UNCHANGED <<kind, mtime, env, runMode, phase, cause, logs, snap>>

\* Lines 99-100: the entry is not older than the threshold.
SkipEntry ==
    /\ pc = "loop" /\ entries # <<>>
    /\ lastWriteTime(Head(entries)) # -1
    /\ ~IsOlder(lastWriteTime(Head(entries)))
    /\ skipLog' = Append(skipLog, Head(entries))
    /\ entries' = Tail(entries)
    /\ UNCHANGED <<kind, mtime, env, runMode, phase, pc, cause, todo,
                   dryLog, removeLog, errLog, listLog, snap>>

\* Line 102: the loop is over.
Return ==
    /\ pc = "loop" /\ entries = <<>>
    /\ pc' = "returned"
    /\ UNCHANGED <<kind, mtime, env, runMode, phase, cause, entries, todo, logs, snap>>

----------------------------------------------------------------------------
\* deleteRecursively

\* Where control is once the calls in t are all that is left of the recursion.
After(t) == IF t = <<>> THEN "loop" ELSE "recursing"

\* Line 62: isDirectory throws; nothing catches it.
IsDirectoryThrows ==
    /\ pc = "recursing"
    /\ isDirectory(Head(todo)) = "throw"
    /\ pc' = "terminated"
    /\ cause' = "is_directory"
    /\ UNCHANGED <<kind, mtime, env, runMode, phase, entries, todo, logs, snap>>

\* Lines 62-67: a directory is listed and each entry is recursed into.
Descend ==
    /\ pc = "recursing"
    /\ isDirectory(Head(todo)) = "true"
    /\ listLog' = Append(listLog, Head(todo))
    /\ todo' = listDirectories(Head(todo)) \o Tail(todo)
    /\ pc' = After(todo')
    /\ UNCHANGED <<kind, mtime, env, runMode, phase, cause, entries,
                   dryLog, removeLog, skipLog, errLog, snap>>

\* Faulty variant: the DryRun branch removes the entry as the Execute branch does.
ReportLeafDryRun_removes ==
    /\ pc = "recursing"
    /\ isDirectory(Head(todo)) = "false"
    /\ runMode = "DryRun"
    /\ dryLog' = Append(dryLog, Head(todo))
    /\ kind' = removeFileKind(Head(todo))
    /\ mtime' = removeFileMtime(Head(todo))
    /\ todo' = Tail(todo)
    /\ pc' = After(todo')
    /\ UNCHANGED <<env, runMode, phase, cause, entries,
                   removeLog, skipLog, errLog, listLog, snap>>

\* Lines 73-75.
ReportLeafDryRun ==
    /\ pc = "recursing"
    /\ isDirectory(Head(todo)) = "false"
    /\ runMode = "DryRun"
    /\ dryLog' = Append(dryLog, Head(todo))
    /\ todo' = Tail(todo)
    /\ pc' = After(todo')
    /\ UNCHANGED <<kind, mtime, env, runMode, phase, cause, entries,
                   removeLog, skipLog, errLog, listLog, snap>>

\* Faulty variant: the age filter of line 97 is applied to every leaf as well, so a
\* leaf that is not older than the threshold is passed over.
RemoveLeafExecute_filtersLeavesByAge ==
    /\ pc = "recursing"
    /\ isDirectory(Head(todo)) = "false"
    /\ runMode = "Execute"
    /\ IF lastWriteTime(Head(todo)) # -1 /\ ~IsOlder(lastWriteTime(Head(todo)))
         THEN UNCHANGED <<kind, mtime, removeLog, errLog>>
         ELSE /\ removeLog' = Append(removeLog, [path |-> Head(todo),
                                       existed |-> kind[Head(todo).node] # "none",
                                       failed |-> RemoveFails(Head(todo))])
              /\ kind' = removeFileKind(Head(todo))
              /\ mtime' = removeFileMtime(Head(todo))
              /\ errLog' = IF RemoveFails(Head(todo)) THEN Append(errLog, Head(todo))
                           ELSE errLog
    /\ todo' = Tail(todo)
    /\ pc' = After(todo')
    /\ UNCHANGED <<env, runMode, phase, cause, entries, dryLog, skipLog, listLog, snap>>

\* Faulty variant: a failing removeFile ends the run (the error is thrown, not printed).
RemoveLeafExecute_abortsOnError ==
    /\ pc = "recursing"
    /\ isDirectory(Head(todo)) = "false"
    /\ runMode = "Execute"
    /\ removeLog' = Append(removeLog, [path |-> Head(todo),
                                       existed |-> kind[Head(todo).node] # "none",
                                       failed |-> RemoveFails(Head(todo))])
    /\ kind' = removeFileKind(Head(todo))
    /\ mtime' = removeFileMtime(Head(todo))
    /\ errLog' = errLog
    /\ IF RemoveFails(Head(todo))
         THEN pc' = "terminated" /\ cause' = "remove" /\ todo' = todo
         ELSE pc' = After(Tail(todo)) /\ cause' = cause /\ todo' = Tail(todo)
    /\ UNCHANGED <<env, runMode, phase, entries, dryLog, skipLog, listLog, snap>>

\* Lines 76-83.
RemoveLeafExecute ==
    /\ pc = "recursing"
    /\ isDirectory(Head(todo)) = "false"
    /\ runMode = "Execute"
    /\ removeLog' = Append(removeLog, [path |-> Head(todo),
                                       existed |-> kind[Head(todo).node] # "none",
                                       failed |-> RemoveFails(Head(todo))])
    /\ kind' = removeFileKind(Head(todo))
    /\ mtime' = removeFileMtime(Head(todo))
    /\ errLog' = IF RemoveFails(Head(todo)) THEN Append(errLog, Head(todo)) ELSE errLog
    /\ todo' = Tail(todo)
    /\ pc' = After(todo')
    /\ UNCHANGED <<env, runMode, phase, cause, entries, dryLog, skipLog, listLog, snap>>

Next ==
    \/ Invoke
    \/ InvokeAgain
    \/ LastWriteTimeThrows
    \/ SelectOlder
    \/ SkipEntry
    \/ Return
    \/ IsDirectoryThrows
    \/ Descend
    \/ ReportLeafDryRun
    \/ RemoveLeafExecute

Spec == Init /\ [][Next]_vars

----------------------------------------------------------------------------
\* Vocabulary of the properties

TopLevel == {n \in Nodes : Parent[n] = Root}

\* The last-modified time line 96 reads for top-level child c on the tree the
\* invocation started on (-1: the read throws).
StartTime(c) == lastWriteTimeIn(kindStart, mtimeStart, Path(0, c))

OlderAtStart(c) == kindStart[c] # "none" /\ StartTime(c) # -1 /\ StartTime(c) < oldestAllowed
NotOlderAtStart(c) == kindStart[c] # "none" /\ StartTime(c) # -1 /\ StartTime(c) >= oldestAllowed

\* Non-directories that were in the subtree of c when the invocation started.
LeavesAtStart(c) == {n \in Subtree(c) : kindStart[n] \in {"file", "link"}}

Untouched(c) ==
    /\ \A n \in Subtree(c) : kind[n] = kindStart[n]
    /\ \A i \in DOMAIN removeLog : removeLog[i].path.node \notin Subtree(c)

AllRemovalsSucceeded(log) == \A i \in DOMAIN log : ~log[i].failed

PathsOf(log) == [i \in DOMAIN log |-> log[i].path]

SetOf(s) == {s[i] : i \in DOMAIN s}

----------------------------------------------------------------------------
\* C1: after deleteDirectoriesIfOlderThan returns, in either mode, every
\* top-level child whose last-modified time is >= the threshold is untouched:
\* it and all its descendants still exist and removeFile was called on none of
\* them.
C1_NotOlderUntouched ==
    pc = "returned" => \A c \in TopLevel : NotOlderAtStart(c) => Untouched(c)

ReachedLeavesAtStart(c) ==
    {n \in LeavesAtStart(c) :
        /\ ~(ResolveIn(kindStart, Path(0, n)) # 0
             /\ kindStart[ResolveIn(kindStart, Path(0, n))] = "dir")
        /\ \A a \in Subtree(c) :
             (a # n /\ InSubtree(n, a)) => ~(fault.type = "nolist" /\ fault.node = a)}

C3_DryRunChangesNothing ==
    (runMode = "DryRun" /\ pc # "idle")
        => /\ removeLog = <<>>
           /\ kind = kindStart
           /\ mtime = mtimeStart

\* A DryRun invocation reported leaves of an older subtree and returned.
C3_Witness ==
    /\ runMode = "DryRun" /\ pc = "returned"
    /\ Len(dryLog) >= 2
    /\ listLog # <<>>

\* C4: after an Execute run nothing is left of an older top-level directory
\* (no leaf, no subdirectory, not the directory itself), and every top-level
\* child that is not older is untouched.
C4_OlderDirectoryFullyRemoved ==
    (pc = "returned" /\ runMode = "Execute")
        => \A c \in TopLevel :
              /\ (OlderAtStart(c) /\ kindStart[c] = "dir")
                    => \A n \in Subtree(c) : kind[n] = "none"
              /\ NotOlderAtStart(c) => Untouched(c)

RemovalAboutToFail ==
    /\ pc = "recursing" /\ runMode = "Execute"
    /\ isDirectory(Head(todo)) = "false"
    /\ RemoveFails(Head(todo))

C7_UnreadableEntryNeverAborts ==
    ~(pc = "terminated" /\ cause = "last_write_time")

\* C8: when a path cannot be classified isDirectory returns false without
\* raising, and the run goes on.
C8_UnclassifiableIsLeaf ==
    /\ (pc = "recursing" /\ StatDenied(Head(todo))) => isDirectory(Head(todo)) = "false"
    /\ ~(pc = "terminated" /\ cause = "is_directory")

\* C9: deleteRecursively never lists a symbolic link, and no entry outside the
\* tree rooted at root is passed to removeFile.
C9_SymlinkIsLeaf ==
    /\ \A i \in DOMAIN listLog : kindStart[listLog[i].node] # "link"
    /\ \A i \in DOMAIN removeLog : removeLog[i].path.node \notin Outside

\* C10: the paths a DryRun run reports as "Removing (dry-run)" are, in order,
\* the paths an Execute run on the same tree passes to removeFile, and both
\* runs skip the same set of paths.
C10_DryRunMatchesExecute ==
    (phase = "second" /\ first.mode = "DryRun" /\ pc \in {"returned", "terminated"})
        => /\ PathsOf(removeLog) = first.dryLog
           /\ SetOf(skipLog) = SetOf(first.skipLog)

====
